---- MODULE Spec2Model ----
(***************************************************************************)
(* D2L usage statistics (ctleweb/d2lstat/d2lstat.py): process_file, i.e.   *)
(* parse_files -> calculate_stats -> generate_document, as a state         *)
(* machine over the three input files, the call's parameters, the locals   *)
(* of parse_files and the report file.                                     *)
(*                                                                         *)
(* Text is a sequence of one-character strings, so that slicing ([-5:]),   *)
(* substring tests (in), strip() and int() are computed as Python does.    *)
(* A line of a file is the record of the fields the code reads from it:    *)
(* nf is the number of fields of the line, f maps a 0-based field index to *)
(* the field's text.  No field of the model holds the delimiter, a quote   *)
(* inside its text or a line break, so the line written by csv.writer is   *)
(* its fields joined by the delimiter and str.split gives them back; the   *)
(* last field of a line read by readlines() carries the line break.        *)
(* The code opens its inputs with mode 'rU'; the model is of an            *)
(* interpreter that accepts that mode.                                     *)
(***************************************************************************)
EXTENDS Integers, Sequences, FiniteSets, TLC

\* ------------------------------------------------------------ settings
DELIMITER == "|"
ASSIGNMENTS == 13
GRADE == 15
GRADED == 16
DISCUSSION == 18
USAGE_ROYAL == 3
FAC_ROYAL == 0

\* ------------------------------------------------------------ text
Q == "\""
NL == "\n"

Whitespace == {" ", "\t", "\n", "\r"}

DigitVal ==
  ("0" :> 0) @@ ("1" :> 1) @@ ("2" :> 2) @@ ("3" :> 3) @@ ("4" :> 4) @@
  ("5" :> 5) @@ ("6" :> 6) @@ ("7" :> 7) @@ ("8" :> 8) @@ ("9" :> 9)

MinOf(S) == CHOOSE m \in S : \A k \in S : m <= k
MaxOf(S) == CHOOSE m \in S : \A k \in S : m >= k

\* str.strip(chars): leading and trailing characters of the set removed.
Strip(s, chars) ==
  LET keep == {i \in 1..Len(s) : s[i] \notin chars}
  IN IF keep = {} THEN <<>> ELSE SubSeq(s, MinOf(keep), MaxOf(keep))

\* t in s, for two strings: t occurs in s at some offset.
Contains(s, t) ==
  \E i \in 0..(Len(s) - Len(t)) : SubSeq(s, i + 1, i + Len(t)) = t

\* s[:5] where the code has s[-5:]
First5(s) == IF Len(s) <= 5 THEN s ELSE SubSeq(s, 1, 5)

\* s[-5:]
Last5(s) == IF Len(s) <= 5 THEN s ELSE SubSeq(s, Len(s) - 4, Len(s))

RECURSIVE DigitsValue(_)
DigitsValue(t) ==
  IF t = <<>> THEN 0
  ELSE 10 * DigitsValue(SubSeq(t, 1, Len(t) - 1)) + DigitVal[t[Len(t)]]

\* int(s): surrounding whitespace is ignored, an optional sign, then decimal
\* digits; anything else raises ValueError (ok = FALSE).
ParseInt(s) ==
  LET t == Strip(s, Whitespace)
      signed == Len(t) > 0 /\ t[1] \in {"-", "+"}
      d == IF signed THEN SubSeq(t, 2, Len(t)) ELSE t
  IN IF Len(d) > 0 /\ \A i \in 1..Len(d) : d[i] \in DOMAIN DigitVal
     THEN [ok |-> TRUE,
           val |-> IF signed /\ t[1] = "-" THEN 0 - DigitsValue(d) ELSE DigitsValue(d)]
     ELSE [ok |-> FALSE, val |-> 0]

\* csv.reader on one field: a field enclosed in quotes is read without them.
CsvRead(s) ==
  IF Len(s) >= 2 /\ s[1] = Q /\ s[Len(s)] = Q THEN SubSeq(s, 2, Len(s) - 1) ELSE s

\* csv.writer(delimiter=DELIMITER) on one field: quoted only when it holds the
\* delimiter, a quote or a line break.
CsvWrite(s) ==
  IF \E i \in 1..Len(s) : s[i] \in {DELIMITER, Q, NL, "\r"}
  THEN <<Q>> \o s \o <<Q>> ELSE s

\* One row through csv.reader and csv.writer.
ReencodeRow(r) == [nf |-> r.nf, f |-> [i \in DOMAIN r.f |-> CsvWrite(CsvRead(r.f[i]))]]

ReencodeRows(rows) == [k \in 1..Len(rows) |-> ReencodeRow(rows[k])]

\* x.split(DELIMITER) of a line x of readlines(): the fields by index, the last
\* one with the line break (NL stands for it, "\n" or the "\r\n" csv.writer
\* ends a row with: int() ignores either, and no identifier ends in either).
Split(x) ==
  [i \in {k \in DOMAIN x.f : k < x.nf} |->
     IF i = x.nf - 1 THEN x.f[i] \o <<NL>> ELSE x.f[i]]

\* ------------------------------------------------------------ results
Ok(v) == [err |-> "none", val |-> v]
Raise(kind) == [err |-> kind, val |-> <<>>]

\* ------------------------------------------------------------ filter stage
RECURSIVE FilterLoop(_, _, _, _)
FilterLoop(files_data, sem, i, final) ==
  IF i > Len(files_data) THEN Ok(final)
  ELSE LET x == files_data[i]
           y == Split(x)
       IN IF 9 \notin DOMAIN y THEN Raise("IndexError")
          ELSE FilterLoop(files_data, sem, i + 1,
                          IF Contains(y[9], sem) THEN Append(final, x) ELSE final)

\* semester == y[9] where the code has semester in y[9]
RECURSIVE FilterExactLoop(_, _, _, _)
FilterExactLoop(files_data, sem, i, final) ==
  IF i > Len(files_data) THEN Ok(final)
  ELSE LET x == files_data[i]
           y == Split(x)
       IN IF 9 \notin DOMAIN y THEN Raise("IndexError")
          ELSE FilterExactLoop(files_data, sem, i + 1,
                               IF y[9] = sem THEN Append(final, x) ELSE final)

filter_for_semester_exact(files_data, sem) == FilterExactLoop(files_data, sem, 1, <<>>)

filter_for_semester(files_data, sem) == FilterLoop(files_data, sem, 1, <<>>)

\* int(y[i]) > t: "true", "false", or the exception raised.
GtTest(y, i, t) ==
  IF i \notin DOMAIN y THEN "IndexError"
  ELSE LET p == ParseInt(y[i])
       IN IF ~p.ok THEN "ValueError"
          ELSE IF p.val > t THEN "true" ELSE "false"

\* a or b: b is evaluated only when a is false.
OrElse(a, b) == IF a = "false" THEN b ELSE a

\* int(y[GRADE]) > 0 where the code has > 2
UsagePredicateGradeAny(y) ==
  OrElse(GtTest(y, ASSIGNMENTS, 0),
    OrElse(GtTest(y, GRADE, 0),
      OrElse(GtTest(y, GRADED, 0), GtTest(y, DISCUSSION, 0))))

UsagePredicate(y) ==
  OrElse(GtTest(y, ASSIGNMENTS, 0),
    OrElse(GtTest(y, GRADE, 2),
      OrElse(GtTest(y, GRADED, 0), GtTest(y, DISCUSSION, 0))))

RECURSIVE UsageLoop(_, _, _)
UsageLoop(files_data, i, final) ==
  IF i > Len(files_data) THEN Ok(final)
  ELSE LET x == files_data[i]
           t == UsagePredicate(Split(x))
       IN IF t \notin {"true", "false"} THEN Raise(t)
          ELSE UsageLoop(files_data, i + 1,
                         IF t = "true" THEN Append(final, x) ELSE final)

get_rows_with_usage(files_data) == UsageLoop(files_data, 1, <<>>)

\* ------------------------------------------------------------ deduplicator
\* x in seen, for a list
InList(x, seen) == \E k \in 1..Len(seen) : seen[k] = x

\* The rows reaching the deduplicators passed filter_for_semester, so fields 3
\* and 9 exist.
RECURSIVE CrnLoop(_, _, _, _)
CrnLoop(files_data, i, seen_crns, ret_val) ==
  IF i > Len(files_data) THEN ret_val
  ELSE LET x == files_data[i]
           y == Split(x)
       IN IF ~InList(Last5(y[9]), seen_crns)
          THEN CrnLoop(files_data, i + 1, Append(seen_crns, Last5(y[9])), Append(ret_val, x))
          ELSE CrnLoop(files_data, i + 1, seen_crns, ret_val)

\* Duplicates removed from the list being iterated: the row after a removed
\* one is passed over, and stays.
RECURSIVE CrnSkipLoop(_, _, _, _)
CrnSkipLoop(files_data, i, seen_crns, ret_val) ==
  IF i > Len(files_data) THEN ret_val
  ELSE LET x == files_data[i]
           y == Split(x)
       IN IF ~InList(Last5(y[9]), seen_crns)
          THEN CrnSkipLoop(files_data, i + 1, Append(seen_crns, Last5(y[9])), Append(ret_val, x))
          ELSE CrnSkipLoop(files_data, i + 2, seen_crns,
                           IF i + 1 <= Len(files_data)
                           THEN Append(ret_val, files_data[i + 1]) ELSE ret_val)

remove_duplicate_crn_in_place(files_data) == CrnSkipLoop(files_data, 1, <<>>, <<>>)

remove_duplicate_crn(files_data) == CrnLoop(files_data, 1, <<>>, <<>>)

RECURSIVE RoyalLoop(_, _, _, _)
RoyalLoop(files_data, i, seen_royal, ret_val) ==
  IF i > Len(files_data) THEN ret_val
  ELSE LET x == files_data[i]
           y == Split(x)
       IN IF ~InList(y[USAGE_ROYAL], seen_royal)
          THEN RoyalLoop(files_data, i + 1, Append(seen_royal, y[USAGE_ROYAL]), Append(ret_val, x))
          ELSE RoyalLoop(files_data, i + 1, seen_royal, ret_val)

remove_duplicate_royal(files_data) == RoyalLoop(files_data, 1, <<>>, <<>>)

\* ------------------------------------------------------------ classifier
\* full_r / part_r: field FAC_ROYAL of every roster line, quotes stripped.
RosterIds(lines) ==
  [k \in 1..Len(lines) |-> Strip(Split(lines[k])[FAC_ROYAL], {Q})]

\* if ... if ... else where the code has if ... elif ... else
BranchTwoIfs(y, full_r, part_r) ==
  (IF InList(y[USAGE_ROYAL], full_r) THEN {"full"} ELSE {}) \cup
  (IF InList(y[USAGE_ROYAL], part_r) THEN {"part"} ELSE {"staff"})

\* The part-time roster looked up first
BranchPartFirst(y, full_r, part_r) ==
  IF InList(y[USAGE_ROYAL], part_r) THEN {"part"}
  ELSE IF InList(y[USAGE_ROYAL], full_r) THEN {"full"}
  ELSE {"staff"}

\* if y[USAGE_ROYAL] in full_r: ... elif y[USAGE_ROYAL] in part_r: ... else: ...
\* The lists the row is appended to.
Branch(y, full_r, part_r) ==
  IF InList(y[USAGE_ROYAL], full_r) THEN {"full"}
  ELSE IF InList(y[USAGE_ROYAL], part_r) THEN {"part"}
  ELSE {"staff"}

RECURSIVE ClassifyLoop(_, _, _, _, _)
ClassifyLoop(no_dup_r, full_r, part_r, i, b) ==
  IF i > Len(no_dup_r) THEN b
  ELSE LET y == Split(no_dup_r[i])
           to == Branch(y, full_r, part_r)
       IN ClassifyLoop(no_dup_r, full_r, part_r, i + 1,
            [full  |-> IF "full" \in to THEN Append(b.full, y) ELSE b.full,
             part  |-> IF "part" \in to THEN Append(b.part, y) ELSE b.part,
             staff |-> IF "staff" \in to THEN Append(b.staff, y) ELSE b.staff])

Classify(no_dup_r, full_r, part_r) ==
  ClassifyLoop(no_dup_r, full_r, part_r, 1, [full |-> <<>>, part |-> <<>>, staff |-> <<>>])

\* ------------------------------------------------------------ parse_files
\* The dictionary parse_files returns.
ParseResult(usage_file, no_dup_r, two_, b, full_time_file, part_time_file, tc) ==
  [semester_no_dup_crn |-> usage_file,
   semester_no_dup_r   |-> no_dup_r,
   semester            |-> two_,
   full_time           |-> b.full,
   len_full            |-> Len(full_time_file),
   part_time           |-> b.part,
   len_part            |-> Len(part_time_file),
   staff               |-> b.staff,
   total_courses       |-> tc]

\* ------------------------------------------------------------ statistics
Bump(t) == IF t = "true" THEN 1 ELSE 0

RECURSIVE StatsLoop(_, _, _)
StatsLoop(courses, i, specifics) ==
  IF i > Len(courses) THEN Ok(specifics)
  ELSE LET x == Split(courses[i])
           a == GtTest(x, ASSIGNMENTS, 0)
           g == GtTest(x, GRADE, 2)
           d == GtTest(x, GRADED, 0)
           p == GtTest(x, DISCUSSION, 0)
       IN IF a \notin {"true", "false"} THEN Raise(a)
          ELSE IF g \notin {"true", "false"} THEN Raise(g)
          ELSE IF d \notin {"true", "false"} THEN Raise(d)
          ELSE IF p \notin {"true", "false"} THEN Raise(p)
          ELSE StatsLoop(courses, i + 1,
                 [assignments |-> specifics.assignments + Bump(a),
                  grade       |-> specifics.grade + Bump(g),
                  graded      |-> specifics.graded + Bump(d),
                  discussion  |-> specifics.discussion + Bump(p)])

NoSpecifics == [assignments |-> 0, grade |-> 0, graded |-> 0, discussion |-> 0]

StatsOf(file_data, courses, n_courses) ==
  LET s == StatsLoop(courses, 1, NoSpecifics)
  IN IF s.err # "none" THEN Raise(s.err)
     ELSE Ok([semester           |-> file_data.semester,
              courses_with_usage |-> n_courses,
              faculty_with_usage |-> Len(file_data.semester_no_dup_r),
              full_time          |-> Len(file_data.full_time),
              total_full_time    |-> file_data.len_full,
              part_time          |-> Len(file_data.part_time),
              total_part_time    |-> file_data.len_part,
              staff              |-> Len(file_data.staff),
              specifics          |-> s.val,
              total_courses      |-> file_data.total_courses])

\* len(file_data['semester']) where the code has len(file_data['semester_no_dup_crn'])
calculate_stats_semester_len(file_data) ==
  StatsOf(file_data, file_data.semester_no_dup_crn, Len(file_data.semester))

\* for course in file_data['semester'] where the code has 'semester_no_dup_crn'
calculate_stats_every_row(file_data) ==
  StatsOf(file_data, file_data.semester, Len(file_data.semester_no_dup_crn))

calculate_stats(file_data) ==
  LET s == StatsLoop(file_data.semester_no_dup_crn, 1, NoSpecifics)
  IN IF s.err # "none" THEN Raise(s.err)
     ELSE Ok([semester           |-> file_data.semester,
              courses_with_usage |-> Len(file_data.semester_no_dup_crn),
              faculty_with_usage |-> Len(file_data.semester_no_dup_r),
              full_time          |-> Len(file_data.full_time),
              total_full_time    |-> file_data.len_full,
              part_time          |-> Len(file_data.part_time),
              total_part_time    |-> file_data.len_part,
              staff              |-> Len(file_data.staff),
              specifics          |-> s.val,
              total_courses      |-> file_data.total_courses])

\* ------------------------------------------------------------ report
\* round((n / d) * 100, 1) in tenths of a percent, d > 0 (no denominator of
\* the model gives a tie).
Percent(n, d) == (2000 * n + d) \div (2 * d)

NoText == [pct_full |-> 0, pct_part |-> 0, pct_courses |-> 0,
           faculty_with_usage |-> 0, courses_with_usage |-> 0, specifics |-> NoSpecifics]

\* The arguments of string.format, evaluated left to right.
FormatArgs(st) ==
  IF st.total_full_time = 0 THEN Raise("ZeroDivisionError")
  ELSE IF st.total_part_time = 0 THEN Raise("ZeroDivisionError")
  ELSE LET tc == ParseInt(st.total_courses)
       IN IF ~tc.ok THEN Raise("ValueError")
          ELSE IF tc.val = 0 THEN Raise("ZeroDivisionError")
          ELSE Ok([pct_full    |-> Percent(st.full_time, st.total_full_time),
                   pct_part    |-> Percent(st.part_time, st.total_part_time),
                   pct_courses |-> Percent(st.courses_with_usage, tc.val),
                   faculty_with_usage |-> st.faculty_with_usage,
                   courses_with_usage |-> st.courses_with_usage,
                   specifics   |-> st.specifics])

\* ------------------------------------------------------------ csv.reader
\* csv.reader(open(path)) with the default delimiter ',': every line as the
\* list of its fields by index, quotes and line break removed; a field the
\* input sets leave out is empty text. A line written with DELIMITER between
\* its fields holds no ',' and is read as one field, the whole line.
CsvRow(r, delim) ==
  IF delim = "," \/ r.nf = 1
  THEN [i \in 0..(r.nf - 1) |-> IF i \in DOMAIN r.f THEN CsvRead(r.f[i]) ELSE <<>>]
  ELSE [i \in {0} |-> IF 0 \in DOMAIN r.f THEN r.f[0] \o <<delim>> ELSE <<delim>>]

CsvRows(file) == [k \in 1..Len(file.rows) |-> CsvRow(file.rows[k], file.delim)]

\* ------------------------------------------------------------ faculty not using
\* for row in usageDataRaw: try: if (int(row[13])>0 or ...): if (semester in
\* row[9]): ridsOfInstructorsUsing.append(row[3]) except Exception: ...
RECURSIVE UsingLoop(_, _, _, _)
UsingLoop(usageDataRaw, sem, i, ridsOfInstructorsUsing) ==
  IF i > Len(usageDataRaw) THEN ridsOfInstructorsUsing
  ELSE LET row == usageDataRaw[i]
           hit == UsagePredicate(row) = "true" /\ Contains(row[9], sem)
       IN UsingLoop(usageDataRaw, sem, i + 1,
                    IF hit THEN Append(ridsOfInstructorsUsing, row[USAGE_ROYAL])
                    ELSE ridsOfInstructorsUsing)

\* for row in ridsOfInstructorsUsing: if (row not in seen...): ...append(row)
RECURSIVE DuplicatesRemoved(_, _, _)
DuplicatesRemoved(rids, i, seen) ==
  IF i > Len(rids) THEN seen
  ELSE DuplicatesRemoved(rids, i + 1, IF InList(rids[i], seen) THEN seen ELSE Append(seen, rids[i]))

\* for row in usageDataRaw: if (row[3] not in ridsOfInstructorsUsing... and
\* semester in row[9]): usageData.append(row)
RECURSIVE NotUsingLoop(_, _, _, _, _)
NotUsingLoop(usageDataRaw, using, sem, i, usageData) ==
  IF i > Len(usageDataRaw) THEN Ok(usageData)
  ELSE LET row == usageDataRaw[i]
       IN IF USAGE_ROYAL \notin DOMAIN row THEN Raise("IndexError")
          ELSE IF InList(row[USAGE_ROYAL], using)
               THEN NotUsingLoop(usageDataRaw, using, sem, i + 1, usageData)
          ELSE IF 9 \notin DOMAIN row THEN Raise("IndexError")
          ELSE NotUsingLoop(usageDataRaw, using, sem, i + 1,
                            IF Contains(row[9], sem) THEN Append(usageData, row)
                            ELSE usageData)

\* fullTimeRIds.append(row[0])
RawRosterIds(rosterRaw) == [k \in 1..Len(rosterRaw) |-> rosterRaw[k][FAC_ROYAL]]

\* for fullTimeRow in fullTimeDataRaw: if (row[3]==fullTimeRow[0]):
\* fullTimeDepartment = fullTimeRow[5]
Department(rid, rosterRaw) ==
  LET hits == {k \in 1..Len(rosterRaw) : rosterRaw[k][FAC_ROYAL] = rid}
  IN IF \E k \in hits : 5 \notin DOMAIN rosterRaw[k] THEN Raise("IndexError")
     ELSE IF hits = {} THEN Ok(<<>>)
     ELSE Ok(rosterRaw[MaxOf(hits)][5])

\* The three branches with no test of seenRIds
NotUsingBranchEveryRow(rid, fullTimeRIds, partTimeRIds, seenRIds) ==
  IF InList(rid, fullTimeRIds) THEN "full"
  ELSE IF InList(rid, partTimeRIds) THEN "part"
  ELSE "staff"

\* if (row[3] in fullTimeRIds and row[3] not in seenRIds): ... elif (row[3] in
\* partTimeRIds and row[3] not in seenRIds): ... else: if (row[3] not in
\* seenRIds): ...   The list the row is appended to, "none" when to no list.
NotUsingBranch(rid, fullTimeRIds, partTimeRIds, seenRIds) ==
  IF InList(rid, fullTimeRIds) /\ ~InList(rid, seenRIds) THEN "full"
  ELSE IF InList(rid, partTimeRIds) /\ ~InList(rid, seenRIds) THEN "part"
  ELSE IF ~InList(rid, seenRIds) THEN "staff"
  ELSE "none"

RECURSIVE NotUsingClassify(_, _, _, _, _, _)
NotUsingClassify(usageData, fullTimeDataRaw, partTimeDataRaw, i, seenRIds, b) ==
  IF i > Len(usageData) THEN Ok(b)
  ELSE LET row == usageData[i]
           rid == row[USAGE_ROYAL]
           to == NotUsingBranch(rid, RawRosterIds(fullTimeDataRaw),
                                RawRosterIds(partTimeDataRaw), seenRIds)
           dep == IF to = "full" THEN Department(rid, fullTimeDataRaw)
                  ELSE IF to = "part" THEN Department(rid, partTimeDataRaw)
                  ELSE Ok(<<>>)
           entry == IF to = "staff" THEN <<rid, row[1], row[2]>>
                    ELSE <<rid, row[1], row[2], dep.val>>
       IN IF dep.err # "none" THEN dep
          ELSE IF to = "none"
               THEN NotUsingClassify(usageData, fullTimeDataRaw, partTimeDataRaw, i + 1,
                                     seenRIds, b)
          ELSE NotUsingClassify(usageData, fullTimeDataRaw, partTimeDataRaw, i + 1,
                                Append(seenRIds, rid),
                                [b EXCEPT ![to] = Append(@, entry)])

\* The rosters read, the rows classified, and the lines of resultList: the
\* three lists and the total of the first line.
NotUsingResult(usageData, fullTime, partTime) ==
  LET b == NotUsingClassify(usageData, CsvRows(fullTime), CsvRows(partTime), 1, <<>>,
                            [full |-> <<>>, part |-> <<>>, staff |-> <<>>])
  IN IF b.err # "none" THEN b
     ELSE Ok([total |-> Len(b.val.full) + Len(b.val.part) + Len(b.val.staff),
              full |-> b.val.full, part |-> b.val.part, staff |-> b.val.staff])

facultyNotUsingD2LCalculation(usage, fullTime, partTime, sem) ==
  IF ~(usage.exists /\ fullTime.exists /\ partTime.exists) THEN Raise("IOError")
  ELSE LET usageDataRaw == CsvRows(usage)
           using == DuplicatesRemoved(UsingLoop(usageDataRaw, sem, 1, <<>>), 1, <<>>)
           usageData == NotUsingLoop(usageDataRaw, using, sem, 1, <<>>)
       IN IF usageData.err # "none" THEN usageData
          ELSE NotUsingResult(usageData.val, fullTime, partTime)

\* ------------------------------------------------------------ virtual classroom
YouSeeU == <<"y", "o", "u", "s", "e", "e", "u">>

\* for row in virtualClassroomDataReader: if ('youseeu' in row[5] and row[1]
\* not in seenVirtualClassRoomOrgUnitIds): ...append(row[1])
RECURSIVE OrgUnitLoop(_, _, _)
OrgUnitLoop(vcRows, i, seenOrgUnitIds) ==
  IF i > Len(vcRows) THEN Ok(seenOrgUnitIds)
  ELSE LET row == vcRows[i]
       IN IF 5 \notin DOMAIN row THEN Raise("IndexError")
          ELSE OrgUnitLoop(vcRows, i + 1,
                           IF Contains(row[5], YouSeeU) /\ ~InList(row[1], seenOrgUnitIds)
                           THEN Append(seenOrgUnitIds, row[1]) ELSE seenOrgUnitIds)

\* for row in instructorUsageDataReader: if (row[10] in seen...OrgUnitIds): if
\* (row[3] not in seenRIds): ...  fullDataOnInstructors, its first column being
\* seenRIds.
RECURSIVE InstructorLoop(_, _, _, _)
InstructorLoop(usageRows, orgUnitIds, i, fullDataOnInstructors) ==
  IF i > Len(usageRows) THEN Ok(fullDataOnInstructors)
  ELSE LET row == usageRows[i]
           seenRIds == [k \in 1..Len(fullDataOnInstructors) |-> fullDataOnInstructors[k][1]]
       IN IF 10 \notin DOMAIN row THEN Raise("IndexError")
          ELSE InstructorLoop(usageRows, orgUnitIds, i + 1,
                 IF InList(row[10], orgUnitIds) /\ ~InList(row[USAGE_ROYAL], seenRIds)
                 THEN Append(fullDataOnInstructors, <<row[USAGE_ROYAL], row[1], row[2]>>)
                 ELSE fullDataOnInstructors)

\* for row in fullTimeFacultyDataReader: if (row[0] in seenRIds): ...append(row[0])
UsingVirtualClassroomRids(rosterRows, seenRIds) ==
  SelectSeq(RawRosterIds(rosterRows), LAMBDA rid : InList(rid, seenRIds))

\* for rid in ...Rids: for row in fullDataOnInstructors: if (row[0] == rid):
\* ...append(row)
RECURSIVE SortOut(_, _, _, _)
SortOut(rids, fullDataOnInstructors, i, out) ==
  IF i > Len(rids) THEN out
  ELSE SortOut(rids, fullDataOnInstructors, i + 1,
               out \o SelectSeq(fullDataOnInstructors, LAMBDA row : row[1] = rids[i]))

\* The rosters read and the lines of resultList: the number of instructors,
\* the instructors listed, and the three sections.
VirtualClassroomResult(fullDataOnInstructors, fullTime, partTime) ==
  IF ~fullTime.exists \/ ~partTime.exists THEN Raise("IOError")
  ELSE LET seenRIds == [k \in 1..Len(fullDataOnInstructors) |-> fullDataOnInstructors[k][1]]
           fullRids == UsingVirtualClassroomRids(CsvRows(fullTime), seenRIds)
           partRids == UsingVirtualClassroomRids(CsvRows(partTime), seenRIds)
           seenFullAndPartTimeRIds == fullRids \o partRids
       IN Ok([instructors |-> Len(seenRIds),
              listed |-> fullDataOnInstructors,
              full |-> SortOut(fullRids, fullDataOnInstructors, 1, <<>>),
              part |-> SortOut(partRids, fullDataOnInstructors, 1, <<>>),
              staff |-> SelectSeq(fullDataOnInstructors,
                          LAMBDA row : ~InList(row[1], seenFullAndPartTimeRIds))])

calculateVirtualClassroomStats(usage, fullTime, partTime, VCDataFile) ==
  IF ~VCDataFile.exists THEN Raise("IOError")
  ELSE LET org == OrgUnitLoop(CsvRows(VCDataFile), 1, <<>>)
       IN IF org.err # "none" THEN org
          ELSE IF ~usage.exists THEN Raise("IOError")
          ELSE LET data == InstructorLoop(CsvRows(usage), org.val, 1, <<>>)
               IN IF data.err # "none" THEN data
                  ELSE VirtualClassroomResult(data.val, fullTime, partTime)

\* ------------------------------------------------------------ inputs
MaxRows == 3
MaxRoster == 2

SeqsUpTo(S, n) == UNION {[1..k -> S] : k \in 0..n}

Spring2019 == <<"2", "0", "1", "9", "_", "S", "p", "r", "i", "n", "g">>
Tag19 == <<"1", "9">>
R1 == <<"R", "1">>
R2 == <<"R", "2">>
R3 == <<"R", "3">>
Crn1 == <<"_", "1", "0", "0", "0", "1">>
Crn2 == <<"_", "1", "0", "0", "0", "2">>
Crn3 == <<"_", "1", "0", "0", "0", "3">>
Fall2018 == <<"2", "0", "1", "8", "_", "F", "a", "l", "l">>

\* A usage line of nf fields; the fields the code reads are 3, 9, 13, 15, 16, 18.
UsageRow(nf, royal, f9, asg, grade, graded, dis) ==
  LET all == (USAGE_ROYAL :> royal) @@ (9 :> f9) @@ (ASSIGNMENTS :> asg) @@
             (GRADE :> grade) @@ (GRADED :> graded) @@ (DISCUSSION :> dis)
  IN [nf |-> nf, f |-> [i \in {k \in DOMAIN all : k < nf} |-> all[i]]]

\* A roster line of nf fields: identifier at 0, department at 5.
RosterRow(nf, rid) ==
  LET all == (FAC_ROYAL :> rid) @@ (5 :> <<"D">>)
  IN [nf |-> nf, f |-> [i \in {k \in DOMAIN all : k < nf} |-> all[i]]]

\* Well-formed usage lines: each counter alone, the grade score at its
\* threshold, the tag at the start, inside and absent, a field 9 shorter than
\* 5 characters, two spellings of one course.
MixedRows ==
  { UsageRow(19, R1, Spring2019 \o Crn1, <<"1">>, <<"0">>, <<"0">>, <<"0">>),
    UsageRow(19, R2, <<"X", "_">> \o Spring2019 \o Crn1, <<"0">>, <<"3">>, <<"0">>, <<"0">>),
    UsageRow(20, R1, Spring2019 \o Crn2, <<"0">>, <<"0">>, <<"1">>, <<"0">>),
    UsageRow(19, R3, Spring2019 \o Crn2, <<"0">>, <<"1">>, <<"1">>, <<"1">>),
    UsageRow(19, R3, Spring2019 \o Crn3, <<"0">>, <<"2">>, <<"0">>, <<"0">>),
    UsageRow(19, R2, Tag19, <<"1">>, <<"2">>, <<"0">>, <<"0">>),
    UsageRow(19, R3, Fall2018 \o Crn1, <<"1">>, <<"0">>, <<"0">>, <<"0">>),
    UsageRow(19, R2, <<"2", "0", "1", "9", "_", "S", "p", "r", "_", "i", "n", "g">> \o Crn1,
             <<"0">>, <<"1">>, <<"0">>, <<"0">>) }

\* Malformed usage lines (too few fields, a counter that is no number) among
\* two well-formed ones.
FaultyRows ==
  { UsageRow(9, R1, <<>>, <<>>, <<>>, <<>>, <<>>),
    UsageRow(10, R1, Spring2019 \o Crn1, <<>>, <<>>, <<>>, <<>>),
    UsageRow(14, R2, Spring2019 \o Crn1, <<"1">>, <<>>, <<>>, <<>>),
    UsageRow(19, R3, Spring2019 \o Crn2, <<"0">>, <<"x">>, <<"0">>, <<"0">>),
    UsageRow(19, R1, Spring2019 \o Crn2, <<"1">>, <<"0">>, <<"x">>, <<"0">>),
    UsageRow(19, R1, Spring2019 \o Crn1, <<"1">>, <<"0">>, <<"0">>, <<"0">>),
    UsageRow(20, R1, Spring2019 \o Crn2, <<"0">>, <<"0">>, <<"1">>, <<"0">>) }

OrgA == <<"6", "1">>
OrgB == <<"6", "2">>

\* A usage line with the fields the report variants read besides: the names at
\* 1 and 2, the org unit of the course at 10.
Named(x, org) ==
  LET all == (1 :> <<"L">>) @@ (2 :> <<"F">>) @@ (10 :> org)
  IN [nf |-> x.nf, f |-> [i \in {k \in DOMAIN all : k < x.nf} |-> all[i]] @@ x.f]

\* Three instructors with usage.
ThreeInstructors ==
  << Named(UsageRow(19, R1, Spring2019 \o Crn1, <<"1">>, <<"0">>, <<"0">>, <<"0">>), OrgA),
     Named(UsageRow(19, R2, <<"X", "_">> \o Spring2019 \o Crn1, <<"0">>, <<"3">>, <<"0">>, <<"0">>),
           OrgB),
     Named(UsageRow(19, R3, Spring2019 \o Crn2, <<"0">>, <<"1">>, <<"0">>, <<"1">>), OrgA) >>

\* Three instructors with no usage in 2019_Spring, one of them on two lines.
IdleInstructors ==
  << Named(UsageRow(19, R1, Spring2019 \o Crn1, <<"0">>, <<"2">>, <<"0">>, <<"0">>), OrgA),
     Named(UsageRow(19, R2, Spring2019 \o Crn1, <<"0">>, <<"0">>, <<"0">>, <<"0">>), OrgB),
     Named(UsageRow(19, R3, Spring2019 \o Crn2, <<"0">>, <<"1">>, <<"0">>, <<"0">>), OrgA),
     Named(UsageRow(19, R1, Spring2019 \o Crn2, <<"0">>, <<"0">>, <<"0">>, <<"0">>), OrgB),
     Named(UsageRow(19, R2, Fall2018 \o Crn1, <<"1">>, <<"0">>, <<"0">>, <<"0">>), OrgB) >>

\* A line of the virtual classroom data file: org unit at 1, tool at 5.
VCRow(nf, org, tool) ==
  LET all == (1 :> org) @@ (5 :> tool)
  IN [nf |-> nf, f |-> [i \in {k \in DOMAIN all : k < nf} |-> all[i]]]

\* Lines of the virtual classroom data file: the tool of two org units, another
\* tool, and a line too short.
VCRows ==
  { VCRow(6, OrgA, <<"x", ".">> \o YouSeeU), VCRow(6, OrgB, YouSeeU),
    VCRow(6, OrgB, <<"q", "u", "i", "z">>), VCRow(3, OrgA, <<>>) }

\* Roster lines with a department, and one with no department column.
DepartmentRows == { RosterRow(6, R1), RosterRow(6, R2), RosterRow(1, R3) }

\* Roster lines: plain, quoted in the CSV, and a one-column line, quoted too.
RosterRows ==
  { RosterRow(6, R1), RosterRow(6, R2), RosterRow(6, <<Q>> \o R1 \o <<Q>>),
    RosterRow(1, <<Q>> \o R3 \o <<Q>>) }

\* The lines of the 5-row scenario: assignments on two courses, and the grade
\* score at its sentinel value 2.
ScenarioRows ==
  { UsageRow(19, R1, Spring2019 \o Crn1, <<"1">>, <<"0">>, <<"0">>, <<"0">>),
    UsageRow(19, R2, Spring2019 \o Crn1, <<"2">>, <<"0">>, <<"0">>, <<"0">>),
    UsageRow(19, R1, Spring2019 \o Crn2, <<"1">>, <<"0">>, <<"0">>, <<"0">>),
    UsageRow(19, R3, Spring2019 \o Crn3, <<"0">>, <<"2">>, <<"0">>, <<"0">>),
    UsageRow(19, R2, Spring2019 \o Crn1, <<"0">>, <<"2">>, <<"0">>, <<"0">>) }

\* The course identifier of a line: the last 5 characters of field 9, the whole
\* field when it is shorter.
CourseKey(x) ==
  LET s == x.f[9]
      n == IF Len(s) < 5 THEN Len(s) ELSE 5
  IN [k \in 1..n |-> s[Len(s) - n + k]]

\* The instructor identifier of a line: field 3.
InstructorKey(x) == x.f[USAGE_ROYAL]

\* The value of counter i of a line, -1 when it is missing or no number.
Counter(x, i) ==
  IF i \in DOMAIN Split(x) /\ ParseInt(Split(x)[i]).ok THEN ParseInt(Split(x)[i]).val ELSE -1

\* 5 rows of semester 2019_Spring; 3 with assignments > 0, two of them on one
\* course; the other 2 with grade score 2 and every other counter 0.
IsScenario(rows) ==
  LET asg == {k \in 1..Len(rows) : Counter(rows[k], ASSIGNMENTS) > 0}
  IN /\ Len(rows) = 5
     /\ \A k \in 1..5 : 9 \in DOMAIN rows[k].f /\ Contains(rows[k].f[9], Spring2019)
     /\ Cardinality(asg) = 3
     /\ Cardinality({CourseKey(rows[k]) : k \in asg}) = 2
     /\ \A k \in (1..5) \ asg :
          /\ Counter(rows[k], GRADE) = 2
          /\ Counter(rows[k], ASSIGNMENTS) = 0
          /\ Counter(rows[k], GRADED) = 0
          /\ Counter(rows[k], DISCUSSION) = 0

\* A file on disk: whether it can be opened, the character between the fields
\* of its lines, and its lines.
File(rows) == [exists |-> TRUE, delim |-> ",", rows |-> rows]
Missing == [exists |-> FALSE, delim |-> ",", rows |-> <<>>]

Case(u, ft, pt, tpl, sem, tc) ==
  [usage |-> u, full |-> ft, part |-> pt, template |-> tpl, semester |-> sem, total |-> tc,
   vc |-> File(<<VCRow(6, OrgA, YouSeeU)>>)]

\* The inputs of the model: every usage file of up to MaxRows well-formed lines,
\* or of malformed ones, against fixed rosters; every pair of rosters of up to
\* MaxRoster lines against a fixed usage file; the scenario's usage files; and
\* missing or empty files and the values of total_courses.
MixedCases ==
  { Case(File(u), File(<<RosterRow(6, R1)>>), File(<<RosterRow(6, R2)>>), TRUE, sem, <<"4">>) :
      u \in SeqsUpTo(MixedRows, MaxRows), sem \in {Spring2019, Tag19} }

FaultyCases ==
  { Case(File(u), File(<<RosterRow(6, R1)>>), File(<<RosterRow(6, R2)>>), TRUE, Spring2019, <<"4">>) :
      u \in SeqsUpTo(FaultyRows, MaxRows) }

RosterCases ==
  { Case(File(ThreeInstructors), File(ft), File(pt), TRUE, Spring2019, <<"4">>) :
      ft \in SeqsUpTo(RosterRows, MaxRoster), pt \in SeqsUpTo(RosterRows, MaxRoster) }

ScenarioCases ==
  { Case(File(u), File(<<RosterRow(6, R1)>>), File(<<RosterRow(6, R2)>>), TRUE, Spring2019, <<"4">>) :
      u \in {v \in [1..5 -> ScenarioRows] : IsScenario(v)} }

EnvironmentCases ==
  { Case(u, ft, pt, tpl, Spring2019, tc) :
      u \in {Missing, File(<<>>), File(ThreeInstructors)},
      ft \in {Missing, File(<<>>), File(<<RosterRow(6, R1)>>)},
      pt \in {Missing, File(<<>>), File(<<RosterRow(6, R2)>>)},
      tpl \in BOOLEAN,
      tc \in {<<"0">>, <<"4">>, <<"x">>} }

\* Instructors with no usage against every pair of rosters.
IdleCases ==
  { Case(File(IdleInstructors), File(ft), File(pt), TRUE, Spring2019, <<"4">>) :
      ft \in SeqsUpTo(DepartmentRows, MaxRoster), pt \in SeqsUpTo(DepartmentRows, MaxRoster) }

\* Every virtual classroom data file of up to MaxRows lines, and none.
VirtualClassroomCases ==
  { [Case(File(ThreeInstructors), File(<<RosterRow(6, R1)>>), File(<<RosterRow(6, R2)>>),
          TRUE, Spring2019, <<"4">>) EXCEPT !.vc = v] :
      v \in {Missing} \cup {File(rows) : rows \in SeqsUpTo(VCRows, MaxRows)} }

Cases ==
  MixedCases \cup FaultyCases \cup RosterCases \cup ScenarioCases \cup EnvironmentCases \cup
  IdleCases \cup VirtualClassroomCases

\* ------------------------------------------------------------ state
VARIABLES
  pc,             \* the statement process_file is at
  usageFile,      \* the three input files on disk
  fullFile,
  partFile,
  template,       \* whether raw_html.html can be read
  semester,       \* the call's parameters
  total_courses,
  one, two,       \* the locals of parse_files
  usage_file, no_dup_r,
  full_r, part_r,
  res,            \* the dictionary parse_files returned
  stats,          \* the dictionary calculate_stats returned
  string,         \* the formatted template
  report,         \* report.html
  err,            \* the exception that ended the run
  before,         \* the three input files as they were at the first call
  vcFile,         \* the virtual classroom data file
  variant         \* the call of a report variant and what it returned

vars == <<pc, usageFile, fullFile, partFile, template, semester, total_courses,
          one, two, usage_file, no_dup_r, full_r, part_r, res, stats, string,
          report, err, before, vcFile, variant>>

NoBuckets == [full |-> <<>>, part |-> <<>>, staff |-> <<>>]
NoRes == ParseResult(<<>>, <<>>, <<>>, NoBuckets, <<>>, <<>>, <<>>)
NoStats == calculate_stats(NoRes).val
NoErr == [kind |-> "none", at |-> "none"]
NoVariant == [fn |-> "none", after |-> "none", err |-> "none", val |-> <<>>]
Untouched == [state |-> "untouched", text |-> NoText]

Init ==
  \E c \in Cases :
    /\ pc = "reencode_usage"
    /\ usageFile = c.usage
    /\ fullFile = c.full
    /\ partFile = c.part
    /\ template = c.template
    /\ semester = c.semester
    /\ total_courses = c.total
    /\ one = <<>>
    /\ two = <<>>
    /\ usage_file = <<>>
    /\ no_dup_r = <<>>
    /\ full_r = <<>>
    /\ part_r = <<>>
    /\ res = NoRes
    /\ stats = NoStats
    /\ string = NoText
    /\ report = Untouched
    /\ err = NoErr
    /\ before = [usage |-> c.usage, full |-> c.full, part |-> c.part]
    /\ vcFile = c.vc
    /\ variant = NoVariant

\* ------------------------------------------------------------ parse_files
\* with open(path, 'rU') ... csv.reader ... open(path, 'w') ... csv.writer
Reencode(file) == [exists |-> TRUE, delim |-> DELIMITER, rows |-> ReencodeRows(file.rows)]

ReencodeUsage ==
  /\ pc = "reencode_usage"
  /\ usageFile' = IF usageFile.exists THEN Reencode(usageFile) ELSE usageFile
  /\ pc' = IF usageFile.exists THEN "reencode_full" ELSE "failed"
  /\ err' = IF usageFile.exists THEN err ELSE [kind |-> "IOError", at |-> "parse_files"]
  /\ UNCHANGED <<fullFile, partFile, template, semester, total_courses, one, two,
                 usage_file, no_dup_r, full_r, part_r, res, stats, string, report,
                 before, vcFile, variant>>

ReencodeFull ==
  /\ pc = "reencode_full"
  /\ fullFile' = IF fullFile.exists THEN Reencode(fullFile) ELSE fullFile
  /\ pc' = IF fullFile.exists THEN "reencode_part" ELSE "failed"
  /\ err' = IF fullFile.exists THEN err ELSE [kind |-> "IOError", at |-> "parse_files"]
  /\ UNCHANGED <<usageFile, partFile, template, semester, total_courses, one, two,
                 usage_file, no_dup_r, full_r, part_r, res, stats, string, report,
                 before, vcFile, variant>>

ReencodePart ==
  /\ pc = "reencode_part"
  /\ partFile' = IF partFile.exists THEN Reencode(partFile) ELSE partFile
  /\ pc' = IF partFile.exists THEN "filter" ELSE "failed"
  /\ err' = IF partFile.exists THEN err ELSE [kind |-> "IOError", at |-> "parse_files"]
  /\ UNCHANGED <<usageFile, fullFile, template, semester, total_courses, one, two,
                 usage_file, no_dup_r, full_r, part_r, res, stats, string, report,
                 before, vcFile, variant>>

\* one = filter_for_semester(open(usage, 'r').readlines(), semester)
FilterSemester ==
  /\ pc = "filter"
  /\ LET r == filter_for_semester(usageFile.rows, semester)
     IN /\ one' = r.val
        /\ pc' = IF r.err = "none" THEN "usage" ELSE "failed"
        /\ err' = IF r.err = "none" THEN err
                  ELSE [kind |-> r.err, at |-> "filter_for_semester"]
  /\ UNCHANGED <<usageFile, fullFile, partFile, template, semester, total_courses, two,
                 usage_file, no_dup_r, full_r, part_r, res, stats, string, report,
                 before, vcFile, variant>>

\* two = get_rows_with_usage(one)
RowsWithUsage ==
  /\ pc = "usage"
  /\ LET r == get_rows_with_usage(one)
     IN /\ two' = r.val
        /\ pc' = IF r.err = "none" THEN "dedup" ELSE "failed"
        /\ err' = IF r.err = "none" THEN err
                  ELSE [kind |-> r.err, at |-> "get_rows_with_usage"]
  /\ UNCHANGED <<usageFile, fullFile, partFile, template, semester, total_courses, one,
                 usage_file, no_dup_r, full_r, part_r, res, stats, string, report,
                 before, vcFile, variant>>

\* usage_file = remove_duplicate_crn(two); no_dup_r = remove_duplicate_royal(two)
Deduplicate ==
  /\ pc = "dedup"
  /\ usage_file' = remove_duplicate_crn(two)
  /\ no_dup_r' = remove_duplicate_royal(two)
  /\ pc' = "classify"
  /\ UNCHANGED <<usageFile, fullFile, partFile, template, semester, total_courses, one,
                 two, full_r, part_r, res, stats, string, report, err,
                 before, vcFile, variant>>

\* The rosters are read, the rows classified and the dictionary returned.
ClassifyRows ==
  /\ pc = "classify"
  /\ full_r' = RosterIds(fullFile.rows)
  /\ part_r' = RosterIds(partFile.rows)
  /\ res' = ParseResult(usage_file, no_dup_r, two,
                        Classify(no_dup_r, RosterIds(fullFile.rows), RosterIds(partFile.rows)),
                        fullFile.rows, partFile.rows, total_courses)
  /\ pc' = "stats"
  /\ UNCHANGED <<usageFile, fullFile, partFile, template, semester, total_courses, one,
                 two, usage_file, no_dup_r, stats, string, report, err,
                 before, vcFile, variant>>

\* ------------------------------------------------------------ process_file
\* res = calculate_stats(res)
CalculateStats ==
  /\ pc = "stats"
  /\ LET r == calculate_stats(res)
     IN /\ stats' = IF r.err = "none" THEN r.val ELSE stats
        /\ pc' = IF r.err = "none" THEN "format" ELSE "failed"
        /\ err' = IF r.err = "none" THEN err
                  ELSE [kind |-> r.err, at |-> "calculate_stats"]
  /\ UNCHANGED <<usageFile, fullFile, partFile, template, semester, total_courses, one,
                 two, usage_file, no_dup_r, full_r, part_r, res, string, report,
                 before, vcFile, variant>>

\* report.html opened for writing before the template is formatted
FormatDocumentReportFirst ==
  /\ pc = "format"
  /\ report' = [state |-> "open", text |-> NoText]
  /\ LET r == IF template THEN FormatArgs(stats) ELSE Raise("IOError")
     IN /\ string' = IF r.err = "none" THEN r.val ELSE string
        /\ pc' = IF r.err = "none" THEN "open_report" ELSE "failed"
        /\ err' = IF r.err = "none" THEN err
                  ELSE [kind |-> r.err, at |-> "generate_document"]
  /\ UNCHANGED <<usageFile, fullFile, partFile, template, semester, total_courses, one,
                 two, usage_file, no_dup_r, full_r, part_r, res, stats,
                 before, vcFile, variant>>

\* generate_document: the template is read and formatted ...
FormatDocument ==
  /\ pc = "format"
  /\ LET r == IF template THEN FormatArgs(stats) ELSE Raise("IOError")
     IN /\ string' = IF r.err = "none" THEN r.val ELSE string
        /\ pc' = IF r.err = "none" THEN "open_report" ELSE "failed"
        /\ err' = IF r.err = "none" THEN err
                  ELSE [kind |-> r.err, at |-> "generate_document"]
  /\ UNCHANGED <<usageFile, fullFile, partFile, template, semester, total_courses, one,
                 two, usage_file, no_dup_r, full_r, part_r, res, stats, report,
                 before, vcFile, variant>>

\* ... report.html is opened for writing, which empties it ...
OpenReport ==
  /\ pc = "open_report"
  /\ report' = [state |-> "open", text |-> NoText]
  /\ pc' = "write_report"
  /\ UNCHANGED <<usageFile, fullFile, partFile, template, semester, total_courses, one,
                 two, usage_file, no_dup_r, full_r, part_r, res, stats, string, err,
                 before, vcFile, variant>>

\* ... and written.
WriteReport ==
  /\ pc = "write_report"
  /\ report' = [state |-> "written", text |-> string]
  /\ pc' = "done"
  /\ UNCHANGED <<usageFile, fullFile, partFile, template, semester, total_courses, one,
                 two, usage_file, no_dup_r, full_r, part_r, res, stats, string, err,
                 before, vcFile, variant>>

\* ------------------------------------------------------------ report variants
\* A behaviour is a call of process_file, a call of one report variant on the
\* same paths, or the first followed by the second. A variant called first
\* writes nothing a later call could read: process_file is then not called.
Returned == {"done", "failed"}

\* The call of fn that gave r: the lists returned or the exception raised.
Called(fn, r) ==
  [fn |-> fn, after |-> IF pc \in Returned THEN "process_file" ELSE "none",
   err |-> r.err, val |-> r.val]

VariantFrame == <<usageFile, fullFile, partFile, template, semester, total_courses, one,
                  two, usage_file, no_dup_r, full_r, part_r, res, stats, string, report,
                  err, before, vcFile>>

\* facultyNotUsingD2LCalculation(usage, fullTime, partTime, semester), called
\* before process_file or after it returned or raised; the values bound are
\* the function's locals.
FacultyNotUsing ==
  /\ pc \in {"reencode_usage"} \cup Returned
  /\ variant.fn = "none"
  /\ \E usageDataRaw \in {CsvRows(usageFile)} :
     \E using \in {DuplicatesRemoved(UsingLoop(usageDataRaw, semester, 1, <<>>), 1, <<>>)} :
     \E usageData \in {NotUsingLoop(usageDataRaw, using, semester, 1, <<>>)} :
       variant' = Called("facultyNotUsingD2LCalculation",
                         IF ~(usageFile.exists /\ fullFile.exists /\ partFile.exists)
                         THEN Raise("IOError")
                         ELSE IF usageData.err # "none" THEN usageData
                         ELSE NotUsingResult(usageData.val, fullFile, partFile))
  /\ pc' = IF pc \in Returned THEN pc ELSE "not_called"
  /\ UNCHANGED VariantFrame

\* calculateVirtualClassroomStats(usage, fullTime, partTime, VCDataFile)
VirtualClassroomStats ==
  /\ pc \in {"reencode_usage"} \cup Returned
  /\ variant.fn = "none"
  /\ \E org \in {OrgUnitLoop(CsvRows(vcFile), 1, <<>>)} :
     \E data \in {InstructorLoop(CsvRows(usageFile), org.val, 1, <<>>)} :
       variant' = Called("calculateVirtualClassroomStats",
                         IF ~vcFile.exists THEN Raise("IOError")
                         ELSE IF org.err # "none" THEN org
                         ELSE IF ~usageFile.exists THEN Raise("IOError")
                         ELSE IF data.err # "none" THEN data
                         ELSE VirtualClassroomResult(data.val, fullFile, partFile))
  /\ pc' = IF pc \in Returned THEN pc ELSE "not_called"
  /\ UNCHANGED VariantFrame

Next ==
  \/ FacultyNotUsing
  \/ VirtualClassroomStats
  \/ ReencodeUsage
  \/ ReencodeFull
  \/ ReencodePart
  \/ FilterSemester
  \/ RowsWithUsage
  \/ Deduplicate
  \/ ClassifyRows
  \/ CalculateStats
  \/ FormatDocument
  \/ OpenReport
  \/ WriteReport

Spec == Init /\ [][Next]_vars

\* ------------------------------------------------------------ properties
Succeeded == {"usage", "dedup", "classify", "stats", "format", "open_report",
              "write_report", "done"}

\* The state is one of process_file: no report variant was called since. (A
\* variant changes no variable but variant and pc, and pc only when
\* process_file is not called at all.)
OfProcessFile == variant.fn = "none"

\* The stages that have completed, also in a run that failed later.
FilterDone ==
  /\ OfProcessFile
  /\ \/ pc \in Succeeded
     \/ pc = "failed" /\ err.at \in {"get_rows_with_usage", "calculate_stats", "generate_document"}

UsageDone ==
  /\ OfProcessFile
  /\ \/ pc \in Succeeded \ {"usage"}
     \/ pc = "failed" /\ err.at \in {"calculate_stats", "generate_document"}

DedupDone ==
  /\ OfProcessFile
  /\ \/ pc \in Succeeded \ {"usage", "dedup"}
     \/ pc = "failed" /\ err.at \in {"calculate_stats", "generate_document"}

ClassifyDone ==
  /\ OfProcessFile
  /\ \/ pc \in Succeeded \ {"usage", "dedup", "classify"}
     \/ pc = "failed" /\ err.at \in {"calculate_stats", "generate_document"}

StatsDone ==
  /\ OfProcessFile
  /\ \/ pc \in {"format", "open_report", "write_report", "done"}
     \/ pc = "failed" /\ err.at = "generate_document"

\* The rows of a list at the indices I, in the list's order.
RowsAt(rows, I) ==
  [k \in 1..Cardinality(I) |-> rows[CHOOSE i \in I : Cardinality({j \in I : j <= i}) = k]]

\* The rows that are the first of their key.
FirstOccurrences(rows, Key(_)) ==
  RowsAt(rows, {i \in 1..Len(rows) : \A j \in 1..(i - 1) : Key(rows[j]) # Key(rows[i])})

\* C1: remove_duplicate_crn (key: the last 5 characters of field 9, the whole
\* field when shorter) and remove_duplicate_royal (key: field 3) return exactly
\* the rows that are the first occurrence of their key, in input order.
C1_FirstOccurrencesKept ==
  DedupDone =>
    /\ usage_file = FirstOccurrences(two, CourseKey)
    /\ no_dup_r = FirstOccurrences(two, InstructorKey)

\* A later row of a seen course and of a seen instructor were dropped, and one
\* course identifier is a field 9 shorter than 5 characters.
C1_Witness ==
  /\ DedupDone
  /\ Len(usage_file) >= 2 /\ Len(usage_file) < Len(two)
  /\ Len(no_dup_r) >= 2 /\ Len(no_dup_r) < Len(two)
  /\ \E i \in 1..Len(usage_file) : Len(usage_file[i].f[9]) < 5

\* C2: deduplication is idempotent: either deduplicator, run on its own output,
\* returns that output.
C2_DedupIdempotent ==
  DedupDone =>
    /\ remove_duplicate_crn(usage_file) = usage_file
    /\ remove_duplicate_royal(no_dup_r) = no_dup_r

\* Three rows of one course went in and one came out.
C2_Witness ==
  /\ DedupDone
  /\ Len(two) = 3 /\ Len(usage_file) = 1
  /\ Len(no_dup_r) = 2

Ids(bucket) == {bucket[k][USAGE_ROYAL] : k \in 1..Len(bucket)}

Occurrences(y, bucket) == Cardinality({k \in 1..Len(bucket) : bucket[k] = y})

\* C3: after parse_files the three buckets are pairwise disjoint in instructor
\* identifier and hold exactly the rows of the instructor-deduplicated set,
\* each once, so that faculty_with_usage = full_time + part_time + staff;
\* whatever the rosters hold.
C3_BucketsPartition ==
  /\ ClassifyDone =>
       /\ Ids(res.full_time) \cap Ids(res.part_time) = {}
       /\ Ids(res.full_time) \cap Ids(res.staff) = {}
       /\ Ids(res.part_time) \cap Ids(res.staff) = {}
       /\ \A i \in 1..Len(res.semester_no_dup_r) :
            LET y == Split(res.semester_no_dup_r[i])
            IN Occurrences(y, res.full_time) + Occurrences(y, res.part_time)
                 + Occurrences(y, res.staff) = 1
       /\ \A b \in {res.full_time, res.part_time, res.staff} :
            \A k \in 1..Len(b) :
              \E i \in 1..Len(res.semester_no_dup_r) : b[k] = Split(res.semester_no_dup_r[i])
       /\ res.semester_no_dup_r = no_dup_r
  /\ StatsDone =>
       stats.faculty_with_usage = stats.full_time + stats.part_time + stats.staff

\* An identifier is twice in the full-time roster and also in the part-time
\* roster, and every bucket holds a row.
C3_Witness ==
  /\ StatsDone
  /\ \E i, j \in 1..Len(full_r) :
       /\ i # j /\ full_r[i] = full_r[j]
       /\ InList(full_r[i], part_r)
       /\ full_r[i] \in Ids(res.full_time)
  /\ res.part_time # <<>>
  /\ res.staff # <<>>

InBucket(y, bucket) == Occurrences(y, bucket) > 0

\* C4: a row is classified full-time iff its identifier is in the full-time
\* roster list; else part-time iff it is in the part-time roster list; else
\* staff.
C4_ClassifiedInOrder ==
  ClassifyDone =>
    \A i \in 1..Len(no_dup_r) :
      LET x == no_dup_r[i]
          inFull == \E k \in 1..Len(full_r) : full_r[k] = InstructorKey(x)
          inPart == \E k \in 1..Len(part_r) : part_r[k] = InstructorKey(x)
      IN /\ InBucket(Split(x), res.full_time) <=> inFull
         /\ InBucket(Split(x), res.part_time) <=> (~inFull /\ inPart)
         /\ InBucket(Split(x), res.staff) <=> (~inFull /\ ~inPart)

\* An identifier in both rosters was classified full-time, and one in neither
\* was classified staff.
C4_Witness ==
  /\ ClassifyDone
  /\ \E k \in 1..Len(res.full_time) :
       InList(res.full_time[k][USAGE_ROYAL], full_r) /\ InList(res.full_time[k][USAGE_ROYAL], part_r)
  /\ \E k \in 1..Len(res.staff) :
       ~InList(res.staff[k][USAGE_ROYAL], full_r) /\ ~InList(res.staff[k][USAGE_ROYAL], part_r)

\* assignments > 0 OR grade score > 2 OR graded count > 0 OR discussion count > 0
HasUsage(x) ==
  \/ Counter(x, ASSIGNMENTS) > 0
  \/ Counter(x, GRADE) > 2
  \/ Counter(x, GRADED) > 0
  \/ Counter(x, DISCUSSION) > 0

OnlyLowGrade(x) ==
  /\ Counter(x, GRADE) \in {1, 2}
  /\ Counter(x, ASSIGNMENTS) = 0
  /\ Counter(x, GRADED) = 0
  /\ Counter(x, DISCUSSION) = 0

\* C5: get_rows_with_usage keeps a row iff assignments > 0 or grade score > 2
\* or graded count > 0 or discussion count > 0, in input order; a row whose
\* only non-zero counter is a grade score of 1 or 2 is dropped.
C5_UsageRowsKept ==
  UsageDone =>
    /\ two = SelectSeq(one, HasUsage)
    /\ \A i \in 1..Len(one) : OnlyLowGrade(one[i]) => ~InList(one[i], two)

\* A row with a grade score of 2 alone was dropped, one with a grade score of 3
\* alone was kept.
C5_Witness ==
  /\ UsageDone
  /\ \E i \in 1..Len(one) : OnlyLowGrade(one[i]) /\ Counter(one[i], GRADE) = 2
  /\ \E i \in 1..Len(two) : Counter(two[i], GRADE) = 3 /\ Counter(two[i], ASSIGNMENTS) = 0

\* The semester tag is a contiguous part of field 9 of the line.
InSemester(x) ==
  /\ 9 \in DOMAIN x.f
  /\ \E a, b \in 0..Len(x.f[9]) :
       /\ b - a = Len(semester)
       /\ \A k \in 1..Len(semester) : x.f[9][a + k] = semester[k]

\* C6: filter_for_semester keeps a row iff the semester tag occurs as a
\* contiguous substring of its field 9, in input order, no row altered.
C6_SemesterRowsKept ==
  FilterDone => one = SelectSeq(usageFile.rows, InSemester)

\* A row whose field 9 holds more than the tag was kept, and a row was dropped.
C6_Witness ==
  /\ FilterDone
  /\ \E i \in 1..Len(one) : one[i].f[9] # semester
  /\ Len(one) < Len(usageFile.rows)

\* C7: courses_with_usage is at most the number of courses among the
\* semester's rows, which is at most the number of the file's rows of the
\* semester; faculty_with_usage is at most the number of the semester's rows
\* with usage.
C7_CountsBounded ==
  StatsDone =>
    LET sem_rows == SelectSeq(usageFile.rows, InSemester)
        courses == {CourseKey(sem_rows[i]) : i \in 1..Len(sem_rows)}
    IN /\ stats.courses_with_usage <= Cardinality(courses)
       /\ Cardinality(courses) <= Len(sem_rows)
       /\ stats.faculty_with_usage <= Len(SelectSeq(sem_rows, HasUsage))

\* Two rows with usage are of one course, and a row of the semester has none.
C7_Witness ==
  /\ StatsDone
  /\ stats.courses_with_usage >= 1
  /\ stats.courses_with_usage < Len(two)
  /\ Len(two) < Len(one)

Tripping(rows, i, t) == Cardinality({k \in 1..Len(rows) : Counter(rows[k], i) > t})

InScenario == IsScenario(usageFile.rows) /\ semester = Spring2019

\* C8 as stated: in the 5-row scenario calculate_stats reports
\* courses_with_usage = 2 and specifics['assignments'] = 3.
C8_ScenarioAsStated ==
  (StatsDone /\ InScenario) =>
    /\ stats.courses_with_usage = 2
    /\ stats.specifics.assignments = 3

\* C8, amended: in the 5-row scenario calculate_stats reports
\* courses_with_usage = 2 and specifics['assignments'] = 2; each per-activity
\* count is the number of course-deduplicated usage rows that trip that
\* activity's predicate, a row counting toward every category it trips.
C8_ActivityCounts ==
  StatsDone =>
    /\ InScenario => stats.courses_with_usage = 2 /\ stats.specifics.assignments = 2
    /\ stats.specifics.assignments = Tripping(usage_file, ASSIGNMENTS, 0)
    /\ stats.specifics.grade = Tripping(usage_file, GRADE, 2)
    /\ stats.specifics.graded = Tripping(usage_file, GRADED, 0)
    /\ stats.specifics.discussion = Tripping(usage_file, DISCUSSION, 0)
    /\ usage_file = FirstOccurrences(SelectSeq(SelectSeq(usageFile.rows, InSemester), HasUsage),
                                     CourseKey)

\* The scenario's statistics were computed.
C8_Witness == StatsDone /\ InScenario

\* generate_document has formatted, or failed formatting, statistics with a
\* zero denominator.
ZeroDenominator ==
  /\ \/ pc \in {"open_report", "write_report", "done"}
     \/ pc = "failed" /\ err.at = "generate_document" /\ err.kind # "IOError"
  /\ \/ stats.total_full_time = 0 /\ stats.full_time = 0
     \/ stats.total_part_time = 0 /\ stats.part_time = 0
     \/ ParseInt(stats.total_courses).ok /\ ParseInt(stats.total_courses).val = 0

\* C9: with a zero denominator (total_full_time, total_part_time or
\* total_courses) generate_document reports the statistic as not applicable
\* and does not raise.
C9_ZeroDenominatorReported ==
  ZeroDenominator => pc # "failed" /\ err.kind = "none"

\* C10: report.html is opened for writing or written only after parsing,
\* filtering, deduplication, classification, statistics and every percentage
\* were computed without an error; in a run that failed it is untouched.
C10_ReportOnlyAfterSuccess ==
  /\ report # Untouched =>
       /\ pc \in {"write_report", "done"}
       /\ err = NoErr
       /\ FormatArgs(stats).err = "none" /\ string = FormatArgs(stats).val
       /\ calculate_stats(res).err = "none" /\ stats = calculate_stats(res).val
       /\ report.state = "written" => report.text = string
  /\ pc = "failed" => report = Untouched /\ err.kind # "none"
  /\ pc = "done" => report.state = "written"

\* The run failed at the last computation before the report is opened.
C10_Witness ==
  /\ pc = "failed"
  /\ err = [kind |-> "ZeroDivisionError", at |-> "generate_document"]
  /\ report = Untouched

\* ------------------------------------------------------------ row-level errors
\* process_file stopped at a statement that reads the fields of a usage row.
RowErrorAborted ==
  /\ pc = "failed"
  /\ err.at \in {"filter_for_semester", "get_rows_with_usage", "calculate_stats"}
  /\ err.kind \in {"IndexError", "ValueError"}

\* C11: a usage row with too few fields for a positional access, or with a
\* counter field that is no number, is skipped: it does not abort the run of
\* process_file.
C11_RowErrorsIsolated == ~RowErrorAborted

\* ------------------------------------------------------------ quoted roster identifiers
\* A line of the roster file as it was at the call holds the identifier in
\* quotes, resp. holds it, in quotes or not.
QuotedIn(file, rid) ==
  \E k \in 1..Len(file.rows) : file.rows[k].f[FAC_ROYAL] = <<Q>> \o rid \o <<Q>>

NamedIn(file, rid) ==
  \E k \in 1..Len(file.rows) : CsvRead(file.rows[k].f[FAC_ROYAL]) = rid

\* C12: a usage row whose identifier (field 3, unquoted) stands in quotes in
\* the full-time roster file is classified full-time, and one whose identifier
\* stands in quotes in the part-time roster file, the full-time roster not
\* naming it, is classified part-time; neither is classified staff.
C12_QuotedRosterIdMatched ==
  ClassifyDone =>
    \A i \in 1..Len(no_dup_r) :
      LET x == no_dup_r[i]
          rid == InstructorKey(x)
      IN /\ QuotedIn(before.full, rid) =>
              InBucket(Split(x), res.full_time) /\ ~InBucket(Split(x), res.staff)
         /\ QuotedIn(before.part, rid) /\ ~NamedIn(before.full, rid) =>
              InBucket(Split(x), res.part_time) /\ ~InBucket(Split(x), res.staff)

\* ------------------------------------------------------------ faculty not using
\* facultyNotUsingD2LCalculation returned, called on the files as they were.
NotUsingReturned ==
  /\ variant.fn = "facultyNotUsingD2LCalculation"
  /\ variant.err = "none"
  /\ variant.after = "none"

\* The identifiers of a list of the result.
Listed(list) == {list[k][1] : k \in 1..Len(list)}

\* The rows of the usage file in the semester, and the identifiers with a row
\* in the semester on which the usage predicate, evaluated from the left, is
\* true.
SemesterRows ==
  LET raw == CsvRows(usageFile)
  IN {raw[k] : k \in {j \in 1..Len(raw) : 9 \in DOMAIN raw[j] /\ Contains(raw[j][9], semester)}}

UsingIds == {row[USAGE_ROYAL] : row \in {r \in SemesterRows : UsagePredicate(r) = "true"}}

IdleIds == {row[USAGE_ROYAL] : row \in SemesterRows} \ UsingIds

\* C13: the three lists facultyNotUsingD2LCalculation returns hold exactly the
\* identifiers with a row in the semester and no row in the semester that
\* satisfies the usage predicate, each once: in the full-time list iff the
\* full-time roster names it, else in the part-time list iff the part-time
\* roster names it, else in the staff list; the total is the sum of the three
\* lengths.
C13_NotUsingListed ==
  NotUsingReturned =>
    LET v == variant.val
    IN /\ Listed(v.full) \cup Listed(v.part) \cup Listed(v.staff) = IdleIds
       /\ Len(v.full) + Len(v.part) + Len(v.staff) = Cardinality(IdleIds)
       /\ \A rid \in IdleIds :
            /\ rid \in Listed(v.full) <=> NamedIn(fullFile, rid)
            /\ rid \in Listed(v.part) <=> ~NamedIn(fullFile, rid) /\ NamedIn(partFile, rid)
            /\ rid \in Listed(v.staff) <=> ~NamedIn(fullFile, rid) /\ ~NamedIn(partFile, rid)
       /\ v.total = Len(v.full) + Len(v.part) + Len(v.staff)

\* All three lists are filled, by an instructor both rosters name, one only
\* the part-time roster names and one neither names; an instructor listed has
\* two rows in the semester, another a row with usage in another semester.
C13_Witness ==
  /\ NotUsingReturned
  /\ usageFile.rows = IdleInstructors
  /\ Listed(variant.val.full) = {R1} /\ NamedIn(partFile, R1)
  /\ Listed(variant.val.part) = {R2}
  /\ Listed(variant.val.staff) = {R3}
  /\ variant.val.total = 3

\* ------------------------------------------------------------ virtual classroom
VirtualClassroomReturned ==
  /\ variant.fn = "calculateVirtualClassroomStats"
  /\ variant.err = "none"

\* How many lines of a section are the instructor's.
Lines(row, section) == Cardinality({k \in 1..Len(section) : section[k] = row})

\* C14: every instructor calculateVirtualClassroomStats lists as having
\* created a virtual classroom meeting is in exactly one of the three sections,
\* once, and the three section counts sum to the number of instructors
\* reported; whatever the rosters hold.
C14_SectionsPartition ==
  VirtualClassroomReturned =>
    LET v == variant.val
    IN /\ \A k \in 1..Len(v.listed) :
            Lines(v.listed[k], v.full) + Lines(v.listed[k], v.part)
              + Lines(v.listed[k], v.staff) = 1
       /\ Len(v.full) + Len(v.part) + Len(v.staff) = v.instructors

\* ------------------------------------------------------------ input files
\* Two files hold the same lines. The delimiter shows only in a line of two
\* fields or more; line ends are not compared.
SameContents(a, b) ==
  /\ a.exists = b.exists
  /\ a.rows = b.rows
  /\ a.delim = b.delim \/ \A k \in 1..Len(a.rows) : a.rows[k].nf = 1

\* What the variant called gives on the input files as they were at first.
OnInputsBefore ==
  IF variant.fn = "facultyNotUsingD2LCalculation"
  THEN facultyNotUsingD2LCalculation(before.usage, before.full, before.part, semester)
  ELSE calculateVirtualClassroomStats(before.usage, before.full, before.part, vcFile)

\* C15: parse_files leaves the three input files as they were before the call,
\* and a report variant called on the same paths after process_file gives what
\* it gives on the files as they were: the same exception or the same lists.
C15_InputFilesUnchanged ==
  /\ SameContents(usageFile, before.usage)
  /\ SameContents(fullFile, before.full)
  /\ SameContents(partFile, before.part)
  /\ variant.fn # "none" =>
       /\ variant.err = OnInputsBefore.err
       /\ variant.err = "none" => variant.val = OnInputsBefore.val

====
